---- MODULE Spec2Model ----
(***************************************************************************)
(* A ball bouncing inside a spinning hexagon (spinning-hexagon-py/main.py). *)
(*                                                                         *)
(* The program computes in floating point; the model computes in fixed     *)
(* point with round-to-nearest:                                            *)
(*   lengths      SCALE units per pixel                                    *)
(*   velocities   SCALE units per pixel/second                             *)
(*   time         milliseconds (clock.tick returns integer milliseconds,   *)
(*                which the program divides by 1000.0)                     *)
(*   angles       centi-degrees; sines and cosines scaled by TRIG          *)
(*   unit vectors scaled by UNITV                                          *)
(*   segment parameter t scaled by TS                                      *)
(* A float holds mant significant bits.  In main() every fixed-point value *)
(* fits the significand of a Python float, so sums and differences are     *)
(* exact there; where a helper function is studied on its own, its inputs  *)
(* are floats of a narrow significand, so that the rounding of each of its *)
(* operations shows at small values.                                       *)
(* Points and vectors are pairs <<x, y>>.  The locals of main() are state  *)
(* variables under their source names.                                     *)
(***************************************************************************)
EXTENDS Integers, Sequences, FiniteSets, TLC

VARIABLES
    pc,            \* position in main(): the statement about to run
    running,       \* main.py:163
    dt,            \* main.py:165, milliseconds
    ball_pos,      \* main.py:157
    ball_vel,      \* main.py:158
    hex_rotation,  \* main.py:161
    vertices,      \* main.py:188
    i,             \* main.py:193, index of the next edge of the for loop
    Q,             \* main.py:197
    dist,          \* main.py:200
    penetration,   \* main.py:204
    normal,        \* main.py:218-220
    v_wall,        \* main.py:223
    rel_vel,       \* main.py:226
    ticks,         \* number of loop iterations started (bounds the model)
    late,          \* number of late frames delivered by the clock so far
    tick0,         \* ball and rotation as they were when the iteration began
    checked,       \* edges examined so far in this iteration, in order
    resolved,      \* edges whose collision was resolved in this iteration
    arg,           \* input of a helper function applied on its own
    res,           \* its result
    mant           \* significant bits of a float

vars == <<pc, running, dt, ball_pos, ball_vel, hex_rotation, vertices, i, Q,
          dist, penetration, normal, v_wall, rel_vel, ticks, late, tick0,
          checked, resolved, arg, res, mant>>

locals == <<Q, dist, penetration, normal, v_wall, rel_vel>>

----------------------------------------------------------------------------
(* Fixed-point representation *)

SCALE == 5 * 10
TRIG == 10 ^ 5
UNITV == 10 ^ 4
TS == 2 ^ 16
MS == 10 ^ 3

Abs(x) == IF x < 0 THEN -x ELSE x
Min(a, b) == IF a < b THEN a ELSE b
Max(a, b) == IF a > b THEN a ELSE b

\* a / b rounded to nearest, b > 0
RoundDiv(a, b) ==
    IF a >= 0 THEN (a + b \div 2) \div b ELSE -((-a + b \div 2) \div b)

RECURSIVE SqrtSearch(_, _, _)
SqrtSearch(n, lo, hi) ==
    IF lo >= hi THEN lo
    ELSE LET mid == (lo + hi + 1) \div 2
         IN  IF mid * mid <= n THEN SqrtSearch(n, mid, hi)
             ELSE SqrtSearch(n, lo, mid - 1)

RECURSIVE BitLen(_)
\* the number of bits of n >= 0
BitLen(n) == IF n = 0 THEN 0 ELSE 1 + BitLen(n \div 2)

\* sys.float_info.mant_dig: the significand of a Python float
MANT_DIG == 53

\* x rounded to a float: to mant significant bits, ties to even.  Every
\* integer of the model has fewer than 31 bits.
fl(x) ==
    IF mant >= 31 THEN x
    ELSE LET a == Abs(x)
             excess == BitLen(a) - mant
         IN  IF excess <= 0 THEN x
             ELSE LET q == 2 ^ excess
                      lo == a \div q
                      r == a % q
                      m == IF 2 * r > q \/ (2 * r = q /\ lo % 2 = 1)
                           THEN lo + 1 ELSE lo
                  IN  IF x < 0 THEN -(m * q) ELSE m * q

\* the square root of n, rounded to nearest
Sqrt(n) ==
    LET r == SqrtSearch(n, 0, 46340)
    IN  IF n - r * r > r THEN r + 1 ELSE r

\* math.hypot
hypot(x, y) == Sqrt(x * x + y * y)

RECURSIVE FracBits(_, _, _)
\* floor(r * 2^bits / d) for 0 <= r < d
FracBits(r, d, bits) ==
    IF bits = 0 THEN 0
    ELSE IF 2 * r >= d
         THEN 2 ^ (bits - 1) + FracBits(2 * r - d, d, bits - 1)
         ELSE FracBits(2 * r, d, bits - 1)

\* num / den as a fixed-point number scaled by TS, den > 0; quotients beyond
\* +-2^14 saturate
Quotient(num, den) ==
    LET n == Abs(num)
        whole == n \div den
        q == IF whole >= 2 ^ 14 THEN 2 ^ 14 * TS
             ELSE whole * TS + FracBits(n % den, den, 16)
    IN  IF num < 0 THEN -q ELSE q

SinTable ==
    << 0, 1745, 3490, 5234, 6976, 8716, 10453, 12187,
       13917, 15643, 17365, 19081, 20791, 22495, 24192, 25882,
       27564, 29237, 30902, 32557, 34202, 35837, 37461, 39073,
       40674, 42262, 43837, 45399, 46947, 48481, 50000, 51504,
       52992, 54464, 55919, 57358, 58779, 60182, 61566, 62932,
       64279, 65606, 66913, 68200, 69466, 70711, 71934, 73135,
       74314, 75471, 76604, 77715, 78801, 79864, 80902, 81915,
       82904, 83867, 84805, 85717, 86603, 87462, 88295, 89101,
       89879, 90631, 91355, 92050, 92718, 93358, 93969, 94552,
       95106, 95630, 96126, 96593, 97030, 97437, 97815, 98163,
       98481, 98769, 99027, 99255, 99452, 99619, 99756, 99863,
       99939, 99985, 100000 >>

\* sine of a centi-degrees, 0 <= a <= 9000: the table, interpolated
SinQ(a) ==
    LET d == a \div 100
        f == a % 100
    IN  IF f = 0 THEN SinTable[d + 1]
        ELSE SinTable[d + 1]
             + RoundDiv((SinTable[d + 2] - SinTable[d + 1]) * f, 100)

\* math.sin
sin(theta) ==
    LET a == theta % 36000
    IN  IF a <= 9000 THEN SinQ(a)
        ELSE IF a <= 18000 THEN SinQ(18000 - a)
        ELSE IF a <= 27000 THEN -SinQ(a - 18000)
        ELSE -SinQ(36000 - a)

\* math.cos
cos(theta) == sin(theta + 9000)

\* math.radians, from centi-degrees to 1/10000 radian
radians(cdeg) == RoundDiv(cdeg * 17453, 10 ^ 4)

----------------------------------------------------------------------------
(* Configuration, main.py:31-47 *)

WIDTH == 800
HEIGHT == 600
FPS == 60
GRAVITY == 800
\* DAMPING = 0.995, in thousandths
DAMPING == 995
\* RESTIUTION = 0.9, in tenths
RESTIUTION == 9
BALL_RADIUS == 10
INITIAL_BALL_POS == <<(WIDTH \div 2) * SCALE, (HEIGHT \div 2 - 150) * SCALE>>
INITIAL_BALL_VEL == <<150 * SCALE, 0>>
HEX_CENTER == <<(WIDTH \div 2) * SCALE, (HEIGHT \div 2) * SCALE>>
HEX_RADIUS == 250
\* HEX_ANGULAR_SPEED = math.radians(20), kept in centi-degrees per second
HEX_ANGULAR_SPEED == 20 * 100

----------------------------------------------------------------------------
(* Helper functions, main.py:54-144 *)

\* vertices[k + 1] is the source's vertices[k]
compute_hexagon_vertices(center, radius, rotation) ==
    [k \in 1..6 |->
        LET theta == rotation + (k - 1) * 6000
        IN  << center[1] + RoundDiv(radius * SCALE * cos(theta), TRIG),
               center[2] + RoundDiv(radius * SCALE * sin(theta), TRIG) >>]

\* the parameter left unclamped
closest_point_on_segment_unclamped(A, B, P) ==
    LET APx == fl(P[1] - A[1])
        APy == fl(P[2] - A[2])
        ABx == fl(B[1] - A[1])
        ABy == fl(B[2] - A[2])
        ab_squared == fl(fl(ABx * ABx) + fl(ABy * ABy))
    IN  IF ab_squared = 0 THEN <<A, 0>>
        ELSE LET t == fl(Quotient(fl(fl(APx * ABx) + fl(APy * ABy)),
                                  ab_squared))
             IN  << << fl(A[1] + fl(RoundDiv(t * ABx, TS))),
                       fl(A[2] + fl(RoundDiv(t * ABy, TS))) >>, t >>

\* main.py:70-92; returns <<Q, t>>
closest_point_on_segment(A, B, P) ==
    LET APx == fl(P[1] - A[1])
        APy == fl(P[2] - A[2])
        ABx == fl(B[1] - A[1])
        ABy == fl(B[2] - A[2])
        ab_squared == fl(fl(ABx * ABx) + fl(ABy * ABy))
    IN  IF ab_squared = 0 THEN <<A, 0>>
        ELSE LET t == Max(0, Min(TS,
                          fl(Quotient(fl(fl(APx * ABx) + fl(APy * ABy)),
                                      ab_squared))))
             IN  << << fl(A[1] + fl(RoundDiv(t * ABx, TS))),
                       fl(A[2] + fl(RoundDiv(t * ABy, TS))) >>, t >>

\* the result is scaled by UNITV
normalize(vec) ==
    LET mag == hypot(vec[1], vec[2])
    IN  IF mag = 0 THEN <<0, 0>>
        ELSE <<RoundDiv(vec[1] * UNITV, mag), RoundDiv(vec[2] * UNITV, mag)>>

vector_sub(a, b) == <<a[1] - b[1], a[2] - b[2]>>

vector_add(a, b) == <<a[1] + b[1], a[2] + b[2]>>

vector_mul(vec, scalar) == <<vec[1] * scalar, vec[2] * scalar>>

dot(a, b) == a[1] * b[1] + a[2] * b[2]

\* a vector whose components carry an extra factor UNITV, brought back
Unscale(vec) == <<RoundDiv(vec[1], UNITV), RoundDiv(vec[2], UNITV)>>

wall_velocity_at_point(point, center, angular_speed) ==
    LET dx == point[1] - center[1]
        dy == point[2] - center[2]
        w == radians(angular_speed)
    IN  <<RoundDiv(-w * dy, UNITV), RoundDiv(w * dx, UNITV)>>

----------------------------------------------------------------------------
(* The body of main()'s for loop, main.py:194-241, as functions of the     *)
(* values it reads                                                         *)

\* the candidate normal taken as it comes
inward_normal_unflipped(A, B) ==
    normalize(<<-(B[2] - A[2]), B[1] - A[1]>>)

\* main.py:206-220: the wall's inward normal, scaled by UNITV
inward_normal(A, B) ==
    LET tangent == <<B[1] - A[1], B[2] - A[2]>>
        candidate == normalize(<<-tangent[2], tangent[1]>>)
        mid == <<RoundDiv(A[1] + B[1], 2), RoundDiv(A[2] + B[2], 2)>>
        to_center == vector_sub(HEX_CENTER, mid)
    IN  IF dot(candidate, to_center) < 0 THEN vector_mul(candidate, -1)
        ELSE candidate

\* the bounce with the wall's own velocity left out of the result
new_ball_vel_no_wall(relv, n, vw) ==
    LET v_rel_dot == RoundDiv(dot(relv, n), UNITV)
    IN  vector_sub(relv,
            Unscale(vector_mul(n, RoundDiv((10 + RESTIUTION) * v_rel_dot, 10))))

\* the bounce with the reflection added instead of subtracted
new_ball_vel_wrong_sign(relv, n, vw) ==
    LET v_rel_dot == RoundDiv(dot(relv, n), UNITV)
    IN  vector_add(vector_add(relv,
            Unscale(vector_mul(n, RoundDiv((10 + RESTIUTION) * v_rel_dot, 10)))),
            vw)

\* main.py:233-236: the ball's velocity after the bounce
new_ball_vel(relv, n, vw) ==
    LET v_rel_dot == RoundDiv(dot(relv, n), UNITV)
        rel_vel_reflected ==
            vector_sub(relv,
                Unscale(vector_mul(n,
                    RoundDiv((10 + RESTIUTION) * v_rel_dot, 10))))
    IN  vector_add(rel_vel_reflected, vw)

\* main.py:202
overlaps(d) == d < BALL_RADIUS * SCALE

\* the gate of main.py:229 left out
moving_into_wall_ungated(relv, n) == TRUE

\* main.py:229
moving_into_wall(relv, n) == dot(relv, n) < 0

\* main.py:240-241: the ball pushed along the normal
pushed_out(pos, n, pen) == vector_add(pos, Unscale(vector_mul(n, pen)))

----------------------------------------------------------------------------
(* The clock *)

MaxTicks == 55
MaxLate == 1

\* clock.tick(FPS) holds the loop to FPS frames per second and returns the
\* milliseconds since the previous call: the frame period when the frame
\* was on time, more when it was late
FramePeriod == MS \div FPS
LateFrame == 6 * FramePeriod + 4

----------------------------------------------------------------------------
(* main(), main.py:150-255 *)

Unset == <<0, 0>>

Init ==
    /\ pc = "while"
    /\ running = TRUE
    /\ dt = 0
    /\ ball_pos = INITIAL_BALL_POS
    /\ ball_vel = INITIAL_BALL_VEL
    /\ hex_rotation = 0
    /\ vertices = <<>>
    /\ i = 0
    /\ Q = Unset
    /\ dist = 0
    /\ penetration = 0
    /\ normal = Unset
    /\ v_wall = Unset
    /\ rel_vel = Unset
    /\ ticks = 0
    /\ late = 0
    /\ tick0 = [pos |-> INITIAL_BALL_POS, vel |-> INITIAL_BALL_VEL, rot |-> 0]
    /\ checked = <<>>
    /\ resolved = <<>>
    /\ arg = <<>>
    /\ res = <<>>
    /\ mant = MANT_DIG

\* the loop entered without looking at running
ClockTick_unguarded ==
    /\ pc = "while"
    /\ ticks < MaxTicks
    /\ \E d \in {FramePeriod, LateFrame} :
          /\ d # FramePeriod => late < MaxLate
          /\ dt' = d
          /\ late' = IF d = FramePeriod THEN late ELSE late + 1
    /\ ticks' = ticks + 1
    /\ tick0' = [pos |-> ball_pos, vel |-> ball_vel, rot |-> hex_rotation]
    /\ pc' = "events"
    /\ UNCHANGED <<running, ball_pos, ball_vel, hex_rotation, vertices, i,
                   locals, checked, resolved, arg, res, mant>>

\* main.py:164-165: the loop condition holds and the clock ticks
ClockTick ==
    /\ pc = "while"
    /\ running
    /\ ticks < MaxTicks
    /\ \E d \in {FramePeriod, LateFrame} :
          /\ d # FramePeriod => late < MaxLate
          /\ dt' = d
          /\ late' = IF d = FramePeriod THEN late ELSE late + 1
    /\ ticks' = ticks + 1
    /\ tick0' = [pos |-> ball_pos, vel |-> ball_vel, rot |-> hex_rotation]
    /\ pc' = "events"
    /\ UNCHANGED <<running, ball_pos, ball_vel, hex_rotation, vertices, i,
                   locals, checked, resolved, arg, res, mant>>

\* main.py:168-170: the pending events are read; a QUIT among them clears
\* running
Events ==
    /\ pc = "events"
    /\ \E quit \in BOOLEAN : running' = IF quit THEN FALSE ELSE running
    /\ pc' = "gravity"
    /\ UNCHANGED <<dt, ball_pos, ball_vel, hex_rotation, vertices, i, locals,
                   ticks, late, tick0, checked, resolved, arg, res, mant>>

\* main.py:174: ball_vel[1] += GRAVITY * dt
gravity_applied(vel, d) ==
    <<vel[1], vel[2] + RoundDiv(GRAVITY * SCALE * d, MS)>>

\* main.py:177-178: ball_pos += ball_vel * dt
integrated(pos, vel, d) ==
    <<pos[1] + RoundDiv(vel[1] * d, MS), pos[2] + RoundDiv(vel[2] * d, MS)>>

\* main.py:181-182: ball_vel *= DAMPING
damped(vel) == <<RoundDiv(vel[1] * DAMPING, MS), RoundDiv(vel[2] * DAMPING, MS)>>

\* main.py:185: hex_rotation += HEX_ANGULAR_SPEED * dt
rotated(rotation, d) == rotation + RoundDiv(HEX_ANGULAR_SPEED * d, MS)

\* gravity added to the horizontal component
ApplyGravity_x ==
    /\ pc = "gravity"
    /\ ball_vel' = <<gravity_applied(<<ball_vel[2], ball_vel[1]>>, dt)[2],
                     ball_vel[2]>>
    /\ pc' = "integrate"
    /\ UNCHANGED <<running, dt, ball_pos, hex_rotation, vertices, i, locals,
                   ticks, late, tick0, checked, resolved, arg, res, mant>>

\* main.py:174
ApplyGravity ==
    /\ pc = "gravity"
    /\ ball_vel' = gravity_applied(ball_vel, dt)
    /\ pc' = "integrate"
    /\ UNCHANGED <<running, dt, ball_pos, hex_rotation, vertices, i, locals,
                   ticks, late, tick0, checked, resolved, arg, res, mant>>

\* the position advanced with the velocity of before the gravity step
Integrate_stale ==
    /\ pc = "integrate"
    /\ ball_pos' = integrated(ball_pos, tick0.vel, dt)
    /\ pc' = "damping"
    /\ UNCHANGED <<running, dt, ball_vel, hex_rotation, vertices, i, locals,
                   ticks, late, tick0, checked, resolved, arg, res, mant>>

\* main.py:177-178
Integrate ==
    /\ pc = "integrate"
    /\ ball_pos' = integrated(ball_pos, ball_vel, dt)
    /\ pc' = "damping"
    /\ UNCHANGED <<running, dt, ball_vel, hex_rotation, vertices, i, locals,
                   ticks, late, tick0, checked, resolved, arg, res, mant>>

\* main.py:181-182
ApplyDamping ==
    /\ pc = "damping"
    /\ ball_vel' = damped(ball_vel)
    /\ pc' = "rotate"
    /\ UNCHANGED <<running, dt, ball_pos, hex_rotation, vertices, i, locals,
                   ticks, late, tick0, checked, resolved, arg, res, mant>>

\* main.py:185
Rotate ==
    /\ pc = "rotate"
    /\ hex_rotation' = rotated(hex_rotation, dt)
    /\ pc' = "vertices"
    /\ UNCHANGED <<running, dt, ball_pos, ball_vel, vertices, i, locals,
                   ticks, late, tick0, checked, resolved, arg, res, mant>>

\* main.py:188-193
ComputeVertices ==
    /\ pc = "vertices"
    /\ vertices' = compute_hexagon_vertices(HEX_CENTER, HEX_RADIUS, hex_rotation)
    /\ i' = 0
    /\ checked' = <<>>
    /\ resolved' = <<>>
    /\ pc' = "edge"
    /\ UNCHANGED <<running, dt, ball_pos, ball_vel, hex_rotation, locals,
                   ticks, late, tick0, arg, res, mant>>

\* main.py:194-195
EdgeA == vertices[i + 1]
EdgeB == vertices[((i + 1) % 6) + 1]

\* main.py:197-200: what the pass over edge i reads off the ball
EdgeQ == closest_point_on_segment(EdgeA, EdgeB, ball_pos)[1]
EdgeDist ==
    LET diff == vector_sub(ball_pos, EdgeQ) IN hypot(diff[1], diff[2])

\* the for loop left at the first resolved collision
NextEdge_break ==
    /\ i' = i + 1
    /\ checked' = Append(checked, i)
    /\ pc' = IF i + 1 < 6 /\ resolved' = resolved THEN "edge" ELSE "render"
    /\ UNCHANGED <<running, dt, hex_rotation, vertices, ticks, late, tick0,
                   arg, res, mant>>

\* main.py:193: on to the next edge, or out of the for loop
NextEdge ==
    /\ i' = i + 1
    /\ checked' = Append(checked, i)
    /\ pc' = IF i + 1 < 6 THEN "edge" ELSE "render"
    /\ UNCHANGED <<running, dt, hex_rotation, vertices, ticks, late, tick0,
                   arg, res, mant>>

\* main.py:202 is false: the ball is clear of edge i
EdgeClear ==
    /\ pc = "edge"
    /\ ~overlaps(EdgeDist)
    /\ Q' = EdgeQ
    /\ dist' = EdgeDist
    /\ UNCHANGED <<ball_pos, ball_vel, penetration, normal, v_wall, rel_vel,
                   resolved>>
    /\ NextEdge

\* main.py:202 is true and main.py:229 false: the ball overlaps edge i and
\* is not moving into it
EdgeOverlap ==
    /\ pc = "edge"
    /\ overlaps(EdgeDist)
    /\ Q' = EdgeQ
    /\ dist' = EdgeDist
    /\ penetration' = BALL_RADIUS * SCALE - EdgeDist
    /\ normal' = inward_normal(EdgeA, EdgeB)
    /\ v_wall' = wall_velocity_at_point(EdgeQ, HEX_CENTER, HEX_ANGULAR_SPEED)
    /\ rel_vel' = vector_sub(ball_vel, v_wall')
    /\ ~moving_into_wall(rel_vel', normal')
    /\ UNCHANGED <<ball_pos, ball_vel, resolved>>
    /\ NextEdge

\* main.py:202 and main.py:229 are true: the collision with edge i is resolved
EdgeResolve ==
    /\ pc = "edge"
    /\ overlaps(EdgeDist)
    /\ Q' = EdgeQ
    /\ dist' = EdgeDist
    /\ penetration' = BALL_RADIUS * SCALE - EdgeDist
    /\ normal' = inward_normal(EdgeA, EdgeB)
    /\ v_wall' = wall_velocity_at_point(EdgeQ, HEX_CENTER, HEX_ANGULAR_SPEED)
    /\ rel_vel' = vector_sub(ball_vel, v_wall')
    /\ moving_into_wall(rel_vel', normal')
    /\ ball_vel' = new_ball_vel(rel_vel', normal', v_wall')
    /\ ball_pos' = pushed_out(ball_pos, normal', penetration')
    /\ resolved' = Append(resolved, i)
    /\ NextEdge

\* main.py:244-253: the frame is drawn
Render ==
    /\ pc = "render"
    /\ pc' = "while"
    /\ UNCHANGED <<running, dt, ball_pos, ball_vel, hex_rotation, vertices, i,
                   locals, ticks, late, tick0, checked, resolved, arg, res, mant>>

\* main.py:164 is false, main.py:255
Quit ==
    /\ pc = "while"
    /\ ~running
    /\ pc' = "done"
    /\ UNCHANGED <<running, dt, ball_pos, ball_vel, hex_rotation, vertices, i,
                   locals, ticks, late, tick0, checked, resolved, arg, res, mant>>

Next ==
    \/ ClockTick
    \/ Events
    \/ ApplyGravity
    \/ Integrate
    \/ ApplyDamping
    \/ Rotate
    \/ ComputeVertices
    \/ EdgeClear
    \/ EdgeOverlap
    \/ EdgeResolve
    \/ Render
    \/ Quit

Spec == Init /\ [][Next]_vars

----------------------------------------------------------------------------
(* closest_point_on_segment and the inward normal on their own: applied    *)
(* once to an input drawn from a bounded set                               *)

MantissaBits == 4
CoordMax == 60
ASpan == 1
YMax == 3
RotSteps == 25
RotUnit == 725

\* the floats of the narrow significand among 0..CoordMax
Floats == {x \in 0..CoordMax : fl(x) = x}

\* A, B and P of a call of closest_point_on_segment
ClosestArgs ==
    {[f |-> "closest", A |-> a, B |-> b, P |-> p, rot |-> 0, k |-> 0,
      flip |-> FALSE] :
        a \in (0..ASpan) \X (0..ASpan),
        b \in Floats \X (0..YMax),
        p \in Floats \X (0..YMax)}

\* an edge of the hexagon: its rotation, of either sign, the edge's index,
\* and whether its ends are taken in the opposite winding
NormalArgs ==
    {[f |-> "normal", A |-> Unset, B |-> Unset, P |-> Unset,
      rot |-> s * RotUnit, k |-> e, flip |-> b] :
        s \in (-RotSteps)..RotSteps, e \in 0..5, b \in BOOLEAN}

PureInit ==
    /\ mant = MantissaBits
    /\ arg \in ClosestArgs \cup NormalArgs
    /\ res = <<>>
    /\ pc = "call"
    /\ running = TRUE
    /\ dt = 0
    /\ ball_pos = INITIAL_BALL_POS
    /\ ball_vel = INITIAL_BALL_VEL
    /\ hex_rotation = 0
    /\ vertices = <<>>
    /\ i = 0
    /\ Q = Unset
    /\ dist = 0
    /\ penetration = 0
    /\ normal = Unset
    /\ v_wall = Unset
    /\ rel_vel = Unset
    /\ ticks = 0
    /\ late = 0
    /\ tick0 = [pos |-> INITIAL_BALL_POS, vel |-> INITIAL_BALL_VEL, rot |-> 0]
    /\ checked = <<>>
    /\ resolved = <<>>

\* main.py:70-92
CallClosestPoint ==
    /\ pc = "call"
    /\ arg.f = "closest"
    /\ res' = closest_point_on_segment(arg.A, arg.B, arg.P)
    /\ pc' = "returned"
    /\ UNCHANGED <<running, dt, ball_pos, ball_vel, hex_rotation, vertices, i,
                   locals, ticks, late, tick0, checked, resolved, arg, mant>>

\* main.py:188, 194-195, 206-220: the normal of edge arg.k of the hexagon
\* turned by arg.rot
CallInwardNormal ==
    /\ pc = "call"
    /\ arg.f = "normal"
    /\ hex_rotation' = arg.rot
    /\ vertices' = compute_hexagon_vertices(HEX_CENTER, HEX_RADIUS, arg.rot)
    /\ i' = arg.k
    /\ LET A == vertices'[arg.k + 1]
           B == vertices'[((arg.k + 1) % 6) + 1]
       IN  res' = IF arg.flip THEN inward_normal(B, A)
                  ELSE inward_normal(A, B)
    /\ pc' = "returned"
    /\ UNCHANGED <<running, dt, ball_pos, ball_vel, locals, ticks, late,
                   tick0, checked, resolved, arg, mant>>

PureNext ==
    \/ CallClosestPoint
    \/ CallInwardNormal

PureSpec == PureInit /\ [][PureNext]_vars

----------------------------------------------------------------------------
(* Free fall: the ball let go at rest from the centre of the hexagon, with *)
(* the damping and the walls out of play, for one second of frames.        *)
(* res.elapsed is the sum of the frames' dt and res.sumsq the sum of their *)
(* squares.                                                                *)

FreeFallInit ==
    /\ pc = "while"
    /\ running = TRUE
    /\ dt = 0
    /\ ball_pos = HEX_CENTER
    /\ ball_vel = <<0, 0>>
    /\ hex_rotation = 0
    /\ vertices = <<>>
    /\ i = 0
    /\ Q = Unset
    /\ dist = 0
    /\ penetration = 0
    /\ normal = Unset
    /\ v_wall = Unset
    /\ rel_vel = Unset
    /\ ticks = 0
    /\ late = 0
    /\ tick0 = [pos |-> HEX_CENTER, vel |-> <<0, 0>>, rot |-> 0]
    /\ checked = <<>>
    /\ resolved = <<>>
    /\ arg = <<>>
    /\ res = [elapsed |-> 0, sumsq |-> 0]
    /\ mant = MANT_DIG

\* main.py:164-165: a frame of 1/60 s, which the clock's whole milliseconds
\* make FramePeriod or one more
FallTick ==
    /\ pc = "while"
    /\ \E d \in {FramePeriod, FramePeriod + 1} :
          /\ res.elapsed + d <= MS
          /\ dt' = d
          /\ res' = [elapsed |-> res.elapsed + d, sumsq |-> res.sumsq + d * d]
    /\ ticks' = ticks + 1
    /\ tick0' = [pos |-> ball_pos, vel |-> ball_vel, rot |-> hex_rotation]
    /\ pc' = "gravity"
    /\ UNCHANGED <<running, ball_pos, ball_vel, hex_rotation, vertices, i,
                   locals, late, checked, resolved, arg, mant>>

\* main.py:180-253 with no damping and the ball clear of every wall: the
\* rest of the iteration leaves the ball as it is
FallRest ==
    /\ pc = "damping"
    /\ pc' = "while"
    /\ UNCHANGED <<running, dt, ball_pos, ball_vel, hex_rotation, vertices, i,
                   locals, ticks, late, tick0, checked, resolved, arg, res,
                   mant>>

FreeFallNext ==
    \/ FallTick
    \/ ApplyGravity
    \/ Integrate
    \/ FallRest

FreeFallSpec == FreeFallInit /\ [][FreeFallNext]_vars

----------------------------------------------------------------------------
(* What the claims speak of *)

\* the pass over an edge has just resolved a collision with it
JustResolved ==
    /\ pc \in {"edge", "render"}
    /\ checked # <<>>
    /\ resolved # <<>>
    /\ checked[Len(checked)] = resolved[Len(resolved)]

\* the distance from point p to edge k of the current vertices
DistToEdge(p, k) ==
    LET q == closest_point_on_segment(vertices[k + 1],
                                      vertices[((k + 1) % 6) + 1], p)[1]
    IN  hypot(p[1] - q[1], p[2] - q[2])

\* the edges within a ball radius of p
Touching(p) == {k \in 0..5 : DistToEdge(p, k) < BALL_RADIUS * SCALE}

\* a . b <= 0, for components too large to multiply as they are
DotNonPositive(a, b) ==
    LET hi == (a[1] \div 512) * b[1] + (a[2] \div 512) * b[2]
        lo == (a[1] % 512) * b[1] + (a[2] % 512) * b[2]
    IN  hi <= (-lo) \div 512

----------------------------------------------------------------------------
\* C1: in the collision pass an edge changes the ball's position or velocity
\* only when the distance from the ball centre to the closest point Q of the
\* edge is strictly below the ball radius and the ball's velocity relative to
\* the wall at Q has a strictly negative dot product with the inward normal;
\* otherwise the ball is left as it was, and no edge changes the rotation.
C1_EdgeGate ==
    [][pc = "edge" =>
        /\ hex_rotation' = hex_rotation
        /\ Q' = closest_point_on_segment(EdgeA, EdgeB, ball_pos)[1]
        /\ dist' = hypot(ball_pos[1] - Q'[1], ball_pos[2] - Q'[2])
        /\ (ball_pos' # ball_pos \/ ball_vel' # ball_vel) =>
              /\ dist' < BALL_RADIUS * SCALE
              /\ rel_vel' = vector_sub(ball_vel,
                     wall_velocity_at_point(Q', HEX_CENTER, HEX_ANGULAR_SPEED))
              /\ normal' = inward_normal(EdgeA, EdgeB)
              /\ dot(rel_vel', normal') < 0
        /\ (dist' >= BALL_RADIUS * SCALE) =>
              (ball_pos' = ball_pos /\ ball_vel' = ball_vel)
        /\ (dist' < BALL_RADIUS * SCALE /\ dot(rel_vel', normal') >= 0) =>
              (ball_pos' = ball_pos /\ ball_vel' = ball_vel)
    ]_vars

\* an edge the ball overlaps while moving away from it has just been passed
C1_Witness ==
    /\ pc \in {"edge", "render"}
    /\ checked # <<>>
    /\ dist < BALL_RADIUS * SCALE
    /\ dot(rel_vel, normal) >= 0
    /\ resolved = <<>>

----------------------------------------------------------------------------
\* wallVelocity + relativeVelocity - (1 + restitution) (relativeVelocity . n) n
C2_Formula(v, w, n) ==
    LET relativeVelocity == <<v[1] - w[1], v[2] - w[2]>>
        along == RoundDiv(relativeVelocity[1] * n[1] + relativeVelocity[2] * n[2],
                          UNITV)
        k == RoundDiv((10 + RESTIUTION) * along, 10)
    IN  << w[1] + relativeVelocity[1] - RoundDiv(k * n[1], UNITV),
           w[2] + relativeVelocity[2] - RoundDiv(k * n[2], UNITV) >>

\* the stationary flat wall of the scenario: the edge from vertex 1 to vertex 2
\* of the hexagon at rotation 0, with angular speed 0
C2_Scenario ==
    LET V == compute_hexagon_vertices(HEX_CENTER, HEX_RADIUS, 0)
        n == inward_normal(V[2], V[3])
        w == wall_velocity_at_point(V[2], HEX_CENTER, 0)
    IN  /\ n = <<0, -UNITV>>
        /\ w = <<0, 0>>
        /\ new_ball_vel(vector_sub(<<0, 10 * SCALE>>, w), n, w) = <<0, -9 * SCALE>>

\* C2: a resolved collision sets the ball's velocity to wallVelocity +
\* relativeVelocity - (1 + restitution) (relativeVelocity . normal) normal,
\* relativeVelocity being the ball's velocity less the wall's at the contact
\* point: the normal component of the relative velocity becomes -restitution
\* times what it was and the tangential component stays (both to within the
\* rounding of the arithmetic); a ball meeting a stationary wall of inward
\* normal (0,-1) at (0,10) leaves at (0,-9).
C2_BounceVelocity ==
    /\ C2_Scenario
    /\ [][(pc = "edge" /\ resolved' # resolved) =>
            LET w == wall_velocity_at_point(Q', HEX_CENTER, HEX_ANGULAR_SPEED)
                before == vector_sub(ball_vel, w)
                after == vector_sub(ball_vel', w)
                n == normal'
                tangent == <<-n[2], n[1]>>
            IN  /\ v_wall' = w
                /\ ball_vel' = C2_Formula(ball_vel, w, n)
                /\ Abs(10 * RoundDiv(dot(after, n), UNITV)
                       + RESTIUTION * RoundDiv(dot(before, n), UNITV)) <= 200
                /\ Abs(dot(after, tangent) - dot(before, tangent)) <= UNITV
       ]_vars

\* a collision with the moving wall has just been resolved
C2_Witness ==
    /\ JustResolved
    /\ v_wall # <<0, 0>>
    /\ ball_vel = C2_Formula(vector_add(rel_vel, v_wall), v_wall, normal)

----------------------------------------------------------------------------
\* C3: when the ball overlaps a single wall and that collision is resolved,
\* the ball centre is afterwards at least a ball radius from that wall,
\* measured along the wall's inward normal (to within the rounding of the
\* arithmetic).
C3_NoResidualPenetration ==
    [][(pc = "edge" /\ resolved' # resolved /\ Touching(ball_pos) = {i}) =>
          dot(vector_sub(ball_pos', Q'), normal')
              >= (BALL_RADIUS * SCALE - 2) * UNITV
    ]_vars

----------------------------------------------------------------------------
\* C5: across a resolved collision the squared magnitude of the ball's
\* velocity relative to the wall at the contact point does not increase.
C5_EnergyNonIncrease ==
    [][(pc = "edge" /\ resolved' # resolved) =>
          LET w == wall_velocity_at_point(Q', HEX_CENTER, HEX_ANGULAR_SPEED)
              before == vector_sub(ball_vel, w)
              after == vector_sub(ball_vel', w)
          IN  \* |after|^2 - |before|^2 = (after - before) . (after + before)
              DotNonPositive(vector_sub(after, before),
                             vector_add(after, before))
    ]_vars

\* a collision has just been resolved and the ball now moves away from the
\* wall, more slowly along the normal than it came
C5_Witness ==
    /\ JustResolved
    /\ dot(rel_vel, normal) < 0
    /\ dot(vector_sub(ball_vel, v_wall), normal) > 0
    /\ dot(vector_sub(ball_vel, v_wall), normal) < -dot(rel_vel, normal)

----------------------------------------------------------------------------
\* the velocity of the iteration's start with gravity added
C6_Fallen == <<tick0.vel[1], tick0.vel[2] + RoundDiv(GRAVITY * SCALE * dt, MS)>>

\* the position of the iteration's start advanced with that velocity
C6_Moved ==
    << tick0.pos[1] + RoundDiv(C6_Fallen[1] * dt, MS),
       tick0.pos[2] + RoundDiv(C6_Fallen[2] * dt, MS) >>

\* that velocity after damping
C6_Slowed ==
    <<RoundDiv(C6_Fallen[1] * DAMPING, MS), RoundDiv(C6_Fallen[2] * DAMPING, MS)>>

\* the rotation of the iteration's start advanced by this iteration's dt
C6_Turned == tick0.rot + RoundDiv(HEX_ANGULAR_SPEED * dt, MS)

\* C6: in every iteration gravity is added to the y-velocity, then the
\* position is advanced with the updated velocity, then the velocity is
\* damped, and only then does the collision pass run, against vertices
\* computed from the rotation already advanced by this iteration's dt.
C6_UpdateOrder ==
    /\ pc = "integrate" => (ball_vel = C6_Fallen /\ ball_pos = tick0.pos)
    /\ pc = "damping" => (ball_vel = C6_Fallen /\ ball_pos = C6_Moved)
    /\ pc = "rotate" =>
          (ball_vel = C6_Slowed /\ ball_pos = C6_Moved
           /\ hex_rotation = tick0.rot)
    /\ pc = "vertices" => hex_rotation = C6_Turned
    /\ (pc = "edge" /\ checked = <<>>) =>
          (ball_vel = C6_Slowed /\ ball_pos = C6_Moved)
    /\ pc = "edge" =>
          /\ hex_rotation = C6_Turned
          /\ vertices = compute_hexagon_vertices(HEX_CENTER, HEX_RADIUS, C6_Turned)

\* the collision pass of a later iteration is about to start: the ball has
\* fallen and moved and the hexagon has turned since the iteration began
C6_Witness ==
    /\ pc = "edge"
    /\ checked = <<>>
    /\ ticks > 1
    /\ ball_vel[2] > tick0.vel[2]
    /\ ball_pos[2] > tick0.pos[2]
    /\ hex_rotation > tick0.rot
    /\ vertices # compute_hexagon_vertices(HEX_CENTER, HEX_RADIUS, tick0.rot)

----------------------------------------------------------------------------
\* C7: in every iteration the six edges (V[k], V[(k+1) mod 6]), k = 0..5, are
\* checked once each in increasing order with no early exit after a hit, and
\* the check of an edge reads the ball as the earlier edges of the same
\* iteration left it.
C7_AllEdgesInOrder ==
    /\ [](pc = "render" => checked = <<0, 1, 2, 3, 4, 5>>)
    /\ [](pc = "edge" => (i \in 0..5 /\ checked = [k \in 1..i |-> k - 1]))
    /\ [][pc = "edge" =>
            /\ i' = i + 1
            /\ checked' = Append(checked, i)
            /\ pc' = IF i = 5 THEN "render" ELSE "edge"
            /\ vertices' = vertices
            /\ Q' = closest_point_on_segment(vertices[i + 1],
                        vertices[((i + 1) % 6) + 1], ball_pos)[1]
            /\ dist' = hypot(ball_pos[1] - Q'[1], ball_pos[2] - Q'[2])
       ]_vars

\* the first edge was hit, the ball moved by it, and the other five edges were
\* checked all the same, the last of them against the ball as moved
C7_Witness ==
    /\ pc = "render"
    /\ checked = <<0, 1, 2, 3, 4, 5>>
    /\ resolved = <<0>>
    /\ ball_pos # C6_Moved
    /\ dist = DistToEdge(ball_pos, 5)

----------------------------------------------------------------------------
\* the statements of one iteration in the order they run, then the loop
\* condition and the shutdown
C8_Order ==
    <<"events", "gravity", "integrate", "damping", "rotate", "vertices",
      "edge", "render", "while", "done">>

\* how far main() has come within the iteration
C8_Progress(p, k) == 10 * (CHOOSE n \in 1..Len(C8_Order) : C8_Order[n] = p) + k

\* main() is at a statement that can run: the guard of one of the actions holds
C8_CanStep ==
    \/ pc \in {"events", "gravity", "integrate", "damping", "rotate",
               "vertices", "render"}
    \/ pc = "edge" /\ i \in 0..5 /\ Len(vertices) = 6
    \/ pc = "while" /\ (~running \/ ticks < MaxTicks)

\* C8: the quit signal is polled once per iteration and ends the loop between
\* iterations: once it has been seen no further iteration starts, every step
\* brings main() nearer to pygame.quit, which it cannot fail to reach (it
\* never stops short of it); while it has not been seen the loop goes on to
\* the next iteration.
C8_QuitEndsLoop ==
    /\ [](~running => (pc = "done" \/ C8_CanStep))
    /\ [][/\ ~running =>
                /\ ~running'
                /\ ticks' = ticks
                /\ C8_Progress(pc', i') > C8_Progress(pc, i)
          /\ (pc = "while" /\ ~running) => pc' = "done"
          /\ (pc = "while" /\ running) => (pc' = "events" /\ ticks' = ticks + 1)
          /\ pc = "events" => (pc' = "gravity" /\ ticks' = ticks)
          /\ pc' = "done" => (pc = "while" /\ ~running)
       ]_vars

\* the loop was quit after several iterations and pygame.quit reached
C8_Witness ==
    /\ pc = "done"
    /\ ~running
    /\ ticks > 2
    /\ checked = <<0, 1, 2, 3, 4, 5>>

----------------------------------------------------------------------------
(* The helper functions on their own *)

Returned(f) == pc = "returned" /\ arg.f = f

\* the ends of the edge whose normal was asked for, as they were passed
NormalA ==
    IF arg.flip THEN vertices[((arg.k + 1) % 6) + 1] ELSE vertices[arg.k + 1]
NormalB ==
    IF arg.flip THEN vertices[arg.k + 1] ELSE vertices[((arg.k + 1) % 6) + 1]

\* C4: for each of the six edges, at every rotation of either sign and in
\* either winding of the edge's ends, the normal used for the collision has
\* a non-negative dot product with the vector from the edge's midpoint to
\* the centre of the hexagon (here twice that vector), and it is a normal:
\* it is not the zero vector
C4_InwardNormal ==
    Returned("normal") =>
        /\ res # <<0, 0>>
        /\ dot(res, <<2 * HEX_CENTER[1] - NormalA[1] - NormalB[1],
                      2 * HEX_CENTER[2] - NormalA[2] - NormalB[2]>>) >= 0

\* the candidate pointed outwards and was turned round, at a negative
\* rotation and with the ends in the opposite winding
C4_Witness ==
    /\ Returned("normal")
    /\ arg.rot < 0
    /\ arg.flip
    /\ res = vector_mul(normalize(<<-(NormalB[2] - NormalA[2]),
                                    NormalB[1] - NormalA[1]>>), -1)

\* the spacing of the floats at the magnitude of x
Ulp(x) == 2 ^ Max(0, BitLen(Abs(x)) - mant)

\* (P - A) . (B - A) and |B - A|^2 of the call, computed exactly
ProjNum ==
    (arg.P[1] - arg.A[1]) * (arg.B[1] - arg.A[1])
        + (arg.P[2] - arg.A[2]) * (arg.B[2] - arg.A[2])
ProjDen ==
    (arg.B[1] - arg.A[1]) * (arg.B[1] - arg.A[1])
        + (arg.B[2] - arg.A[2]) * (arg.B[2] - arg.A[2])
ProjSize ==
    Abs((arg.P[1] - arg.A[1]) * (arg.B[1] - arg.A[1]))
        + Abs((arg.P[2] - arg.A[2]) * (arg.B[2] - arg.A[2]))

\* Q is on AB as far as floats allow: between A and B in each coordinate,
\* and within two rounding steps of A + t * (B - A)
OnSegment ==
    \A c \in 1..2 :
        /\ res[1][c] >= Min(arg.A[c], arg.B[c])
        /\ res[1][c] <= Max(arg.A[c], arg.B[c])
        /\ Abs(res[1][c] * TS
                 - (arg.A[c] * TS + res[2] * (arg.B[c] - arg.A[c])))
             <= 2 * TS * Ulp(Max(arg.A[c], arg.B[c]))

FarBeyondB == 2 ^ mant * (ProjNum - ProjDen) > 8 * (ProjSize + ProjDen)
FarBeyondA == 2 ^ mant * (-ProjNum) > 8 * ProjSize

----------------------------------------------------------------------------
(* Free fall *)

\* the fall of the ball since it was let go
Fallen == ball_pos[2] - HEX_CENTER[2]

\* C9 as stated: gravity of 800 px/s^2 applied for 60 ticks of 1/60 s, from
\* rest, moves the ball down by 0.5 * 800 * 1^2 = 400 px, to within the
\* rounding of the fixed point, and leaves its x-position as it was
C9_GravityScenario ==
    (pc = "while" /\ res.elapsed = MS /\ ticks = FPS) =>
        /\ Abs(Fallen - (GRAVITY \div 2) * SCALE) <= ticks
        /\ ball_pos[1] = HEX_CENTER[1]

\* 0.5 * g * (T^2 + sum of dt^2): what adding g * dt to the velocity and then
\* the velocity times dt to the position sums up to
EulerFall ==
    RoundDiv(RoundDiv(GRAVITY * SCALE, 2 * MS) * (res.elapsed * res.elapsed
                                                   + res.sumsq), MS)

\* C9 as amended: after frames whose dt adds up to T the ball has moved down
\* by 0.5 * 800 * (T^2 + the sum of the squares of the dt), which for 60
\* ticks of 1/60 s is 406.67 px and not 400, and its x-position is as it was
C9_EulerFall ==
    (pc = "while" /\ ticks > 0) =>
        /\ Abs(Fallen - EulerFall) <= ticks
        /\ ball_pos[1] = HEX_CENTER[1]
        /\ ball_vel = <<0, RoundDiv(GRAVITY * SCALE * res.elapsed, MS)>>

\* one second of 60 frames has gone by
C9_Witness ==
    /\ pc = "while"
    /\ res.elapsed = MS
    /\ ticks = FPS
    /\ Fallen > (GRAVITY \div 2) * SCALE + ticks

====
